---------------------------- MODULE Spec2Model ----------------------------
(***************************************************************************)
(* Model of src/src/components/IncentiveOverview.tsx: the IncentiveOverview *)
(* React component, its calculateUserIncentive function, the memoised list *)
(* of calculations and the user-directory fetch.                           *)
(*                                                                         *)
(* Numbers.  Money amounts (total_purchases, gross_commission, thresholds) *)
(* are integers.  The code's fractional values (commission_rate,          *)
(* incentive_amount, progress_percentage) are exact rationals, records    *)
(* [num, den] with den >= 0; den = 0 stands for the IEEE results of a     *)
(* division by zero (num > 0: +Infinity, num < 0: -Infinity, num = 0: NaN).*)
(* A nullable value is a sequence of length at most one: <<>> is null.     *)
(* Strings that the code slices (user ids, user names) are sequences of    *)
(* characters.                                                             *)
(***************************************************************************)
EXTENDS Integers, Sequences, FiniteSets, TLC

VARIABLES
  accounts,               \* prop accounts: Account[]
  salesData,              \* prop salesData: SalesData[]
  incentiveRules,         \* prop incentiveRules: IncentiveRule[]
  currentUser,            \* prop currentUser: User
  allUsers,               \* React state allUsers (line 34)
  sortBy,                 \* React state sortBy (line 35)
  sortOrder,              \* React state sortOrder (line 36)
  filterBy,               \* React state filterBy (line 37)
  usersFetch,             \* position of the loadUsers effect (lines 40-53)
  mounted,                \* the component has rendered at least once
  dirty,                  \* a render is pending (mount, or a state update)
  incentiveCalculations,  \* value of the useMemo of lines 190-221 at the last render
  filteredAndSortedCalculations \* value of the useMemo of lines 224-264 at the last render

vars == <<accounts, salesData, incentiveRules, currentUser, allUsers, sortBy,
          sortOrder, filterBy, usersFetch, mounted, dirty, incentiveCalculations,
          filteredAndSortedCalculations>>

-----------------------------------------------------------------------------
(* Bounds of the model *)

MaxAccounts == 3
MaxRows == 2
MaxRules == 2
MaxTiers == 3
MaxBaseTiers == 2

-----------------------------------------------------------------------------
(* Generic helpers *)

Min(a, b) == IF a <= b THEN a ELSE b
Max(a, b) == IF a >= b THEN a ELSE b

SeqsUpTo(S, n) == UNION {[1..k -> S] : k \in 0..n}

Range(s) == {s[i] : i \in DOMAIN s}

\* Array.prototype.filter
RECURSIVE Filter(_, _)
Filter(s, keep) ==
  IF s = <<>> THEN <<>>
  ELSE (IF Head(s) \in keep THEN <<Head(s)>> ELSE <<>>) \o Filter(Tail(s), keep)

\* Exact rationals standing for the code's floating-point numbers
Rat(n, d) == IF d < 0 THEN [num |-> 0 - n, den |-> 0 - d] ELSE [num |-> n, den |-> d]
RatInt(n) == [num |-> n, den |-> 1]
RatIsNaN(a) == a.den = 0 /\ a.num = 0
RatIsFinite(a) == a.den > 0
RatLe(a, b) == ~RatIsNaN(a) /\ ~RatIsNaN(b) /\ a.num * b.den <= b.num * a.den
RatLt(a, b) == ~RatIsNaN(a) /\ ~RatIsNaN(b) /\ a.num * b.den < b.num * a.den
RatEq(a, b) == ~RatIsNaN(a) /\ ~RatIsNaN(b) /\ a.num * b.den = b.num * a.den
\* Math.min(a, b): NaN if either is NaN
RatMin(a, b) == IF RatIsNaN(a) THEN a ELSE IF RatIsNaN(b) THEN b
                ELSE IF RatLe(a, b) THEN a ELSE b

-----------------------------------------------------------------------------
(* calculateUserIncentive, lines 54-174 *)

\* variant of ActiveRules: the is_active filter is lost
ActiveRules_Unfiltered(rules) == rules

\* line 63: rules.filter(rule => rule.is_active)
ActiveRules(rules) == Filter(rules, {r \in Range(rules) : r.is_active})

\* lines 67-69: rows whose account_id is the id of one of userAccounts
UserSalesData(userAccounts, allSalesData) ==
  Filter(allSalesData,
         {d \in Range(allSalesData) :
            \E i \in DOMAIN userAccounts : userAccounts[i].id = d.account_id})

\* lines 72, 118: reduce((sum, data) => sum + data.total_purchases, 0)
RECURSIVE SumPurchases(_)
SumPurchases(rows) ==
  IF rows = <<>> THEN 0 ELSE Head(rows).total_purchases + SumPurchases(Tail(rows))

\* lines 73, 108: reduce((sum, data) => sum + data.gross_commission, 0)
RECURSIVE SumCommission(_)
SumCommission(rows) ==
  IF rows = <<>> THEN 0 ELSE Head(rows).gross_commission + SumCommission(Tail(rows))

\* variant of CommissionRate: the guard against a zero revenue is lost
CommissionRate_Unguarded(totalRevenue, totalCommission) ==
  Rat(totalCommission * 100, totalRevenue)

\* line 74
CommissionRate(totalRevenue, totalCommission) ==
  IF totalRevenue > 0 THEN Rat(totalCommission * 100, totalRevenue) ELSE RatInt(0)

\* variant of RuleMatches: a maximum of 100 is an ordinary upper bound
RuleMatches_ClosedAt100(rule, commissionRate) ==
  /\ RatLe(RatInt(rule.commission_rate_min), commissionRate)
  /\ RatLe(commissionRate, RatInt(rule.commission_rate_max))

\* lines 79-80: the band test of one rule
RuleMatches(rule, commissionRate) ==
  /\ RatLe(RatInt(rule.commission_rate_min), commissionRate)
  /\ \/ rule.commission_rate_max = 100
     \/ RatLe(commissionRate, RatInt(rule.commission_rate_max))

\* variant of BestRule: falls back to the first rule when no band matches
BestRule_OrFirst(applicableRules, commissionRate) ==
  LET I == {i \in DOMAIN applicableRules :
              /\ RatLe(RatInt(applicableRules[i].commission_rate_min), commissionRate)
              /\ \/ applicableRules[i].commission_rate_max = 100
                 \/ RatLe(commissionRate, RatInt(applicableRules[i].commission_rate_max))}
  IN  IF applicableRules = <<>> THEN <<>>
      ELSE IF I = {} THEN <<applicableRules[1]>>
           ELSE <<applicableRules[CHOOSE i \in I : \A j \in I : i <= j]>>

\* lines 77-84: the first rule of applicableRules that matches; null if none
RECURSIVE BestRule(_, _)
BestRule(applicableRules, commissionRate) ==
  IF applicableRules = <<>> THEN <<>>
  ELSE IF RuleMatches(Head(applicableRules), commissionRate)
       THEN <<Head(applicableRules)>>
       ELSE BestRule(Tail(applicableRules), commissionRate)

\* variant of QualifyingAccountIds: every account qualifies
QualifyingAccountIds_All(userAccounts, userSalesData, bestRule) ==
  {userAccounts[i].id : i \in DOMAIN userAccounts}

\* lines 105-113: ids of the accounts whose own commission meets the rule's minimum
QualifyingAccountIds(userAccounts, userSalesData, bestRule) ==
  {userAccounts[i].id : i \in
     {j \in DOMAIN userAccounts :
        SumCommission(Filter(userSalesData,
            {d \in Range(userSalesData) : d.account_id = userAccounts[j].id}))
          >= bestRule.min_commission_threshold}}

\* lines 116-118
QualifyingRevenue(userAccounts, userSalesData, bestRule) ==
  SumPurchases(Filter(userSalesData,
      {d \in Range(userSalesData) :
         d.account_id \in QualifyingAccountIds(userAccounts, userSalesData, bestRule)}))

\* line 125: a stable ascending sort of a copy of the tiers
RECURSIVE InsertTier(_, _)
InsertTier(sorted, t) ==
  IF sorted = <<>> THEN <<t>>
  ELSE IF Head(sorted).revenue_threshold - t.revenue_threshold <= 0
       THEN <<Head(sorted)>> \o InsertTier(Tail(sorted), t)
       ELSE <<t>> \o sorted

\* variant of SortTiers: line 125 without the sort, the sweep reads the tiers
\* in the order the rule holds them
SortTiers_Unsorted(tiers) == tiers

RECURSIVE SortTiers(_)
SortTiers(tiers) ==
  IF tiers = <<>> THEN <<>>
  ELSE InsertTier(SortTiers(SubSeq(tiers, 1, Len(tiers) - 1)), tiers[Len(tiers)])

\* line 125, [...bestRule.tiers].sort(...): sort works in place, on the spread
\* copy; sorted is the array the sweep reads, tiers is what bestRule.tiers
\* holds afterwards
SortedCopy(tiers) == [sorted |-> SortTiers(tiers), tiers |-> tiers]

\* lines 133-135: sortedTiers[i + 1]?.revenue_threshold || qualifyingRevenue,
\* where || takes its right side when the left is undefined or 0
NextThresholdOr(sortedTiers, i, qualifyingRevenue) ==
  IF i + 1 <= Len(sortedTiers) /\ sortedTiers[i + 1].revenue_threshold # 0
  THEN sortedTiers[i + 1].revenue_threshold
  ELSE qualifyingRevenue

TierRevenue(sortedTiers, i, qualifyingRevenue) ==
  Min(qualifyingRevenue, NextThresholdOr(sortedTiers, i, qualifyingRevenue))
    - sortedTiers[i].revenue_threshold

\* lines 121-142: the sweep from index i (1-based) with the accumulated state;
\* incentiveAmount is carried as the numerator over 100
RECURSIVE TierWalk(_, _, _, _, _)
TierWalk(sortedTiers, qualifyingRevenue, i, incentiveAmount, currentTier) ==
  IF i > Len(sortedTiers)
  THEN [incentiveAmount |-> incentiveAmount, currentTier |-> currentTier,
        nextTier |-> <<>>]
  ELSE IF qualifyingRevenue >= sortedTiers[i].revenue_threshold
       THEN TierWalk(sortedTiers, qualifyingRevenue, i + 1,
                     incentiveAmount
                       + TierRevenue(sortedTiers, i, qualifyingRevenue)
                           * sortedTiers[i].incentive_rate,
                     <<sortedTiers[i]>>)
       ELSE [incentiveAmount |-> incentiveAmount, currentTier |-> currentTier,
             nextTier |-> <<sortedTiers[i]>>]

\* line 149: currentTier?.revenue_threshold || bestRule.base_revenue_threshold
CurrentThreshold(currentTier, bestRule) ==
  IF currentTier # <<>> /\ currentTier[1].revenue_threshold # 0
  THEN currentTier[1].revenue_threshold
  ELSE bestRule.base_revenue_threshold

\* variant of ProgressPercentage: the top-tier branch (lines 156-158) is lost
ProgressPercentage_NoTopTier(currentTier, nextTier, qualifyingRevenue, bestRule) ==
  IF nextTier # <<>>
  THEN LET currentThreshold == CurrentThreshold(currentTier, bestRule)
           nextThreshold == nextTier[1].revenue_threshold
           progress == qualifyingRevenue - currentThreshold
           totalNeeded == nextThreshold - currentThreshold
       IN  RatMin(Rat(progress * 100, totalNeeded), RatInt(100))
  ELSE RatInt(0)

\* lines 145-158
ProgressPercentage(currentTier, nextTier, qualifyingRevenue, bestRule) ==
  IF nextTier # <<>>
  THEN LET currentThreshold == CurrentThreshold(currentTier, bestRule)
           nextThreshold == nextTier[1].revenue_threshold
           progress == qualifyingRevenue - currentThreshold
           totalNeeded == nextThreshold - currentThreshold
       IN  RatMin(Rat(progress * 100, totalNeeded), RatInt(100))
  ELSE IF currentTier # <<>> THEN RatInt(100) ELSE RatInt(0)

\* variant of RemainingToNextTier: the operands of the difference are swapped
RemainingToNextTier_Swapped(nextTier, qualifyingRevenue) ==
  IF nextTier # <<>>
  THEN Max(qualifyingRevenue - nextTier[1].revenue_threshold, 0)
  ELSE 0

\* lines 146, 155
RemainingToNextTier(nextTier, qualifyingRevenue) ==
  IF nextTier # <<>>
  THEN Max(nextTier[1].revenue_threshold - qualifyingRevenue, 0)
  ELSE 0


\* line 186: userId.slice(0, 8)
Slice8(userId) == SubSeq(userId, 1, Min(8, Len(userId)))

UserPrefix == <<"U", "s", "e", "r", " ">>

\* line 180: allUsers.find(u => u.id === userId)
RECURSIVE FindUser(_, _)
FindUser(users, userId) ==
  IF users = <<>> THEN <<>>
  ELSE IF Head(users).id = userId THEN <<Head(users)>>
       ELSE FindUser(Tail(users), userId)

\* variant of GetUserName: the directory is looked up before the current user
GetUserName_DirectoryFirst(userId) ==
  LET user == FindUser(allUsers, userId)
  IN  IF user # <<>> THEN user[1].name
      ELSE IF userId = currentUser.id THEN currentUser.name
           ELSE UserPrefix \o Slice8(userId)

\* lines 176-187
GetUserName(userId) ==
  IF userId = currentUser.id THEN currentUser.name
  ELSE LET user == FindUser(allUsers, userId)
       IN  IF user # <<>> THEN user[1].name ELSE UserPrefix \o Slice8(userId)

\* lines 54-174; the result is <<>> for null and <<calculation>> otherwise
CalculateUserIncentive(userId, userAccounts, allSalesData, rules) ==
  IF Len(userAccounts) = 0 THEN <<>>
  ELSE
  LET applicableRules == ActiveRules(rules) IN
  IF Len(applicableRules) = 0 THEN <<>>
  ELSE
  LET userSalesData == UserSalesData(userAccounts, allSalesData)
      totalRevenue == SumPurchases(userSalesData)
      totalCommission == SumCommission(userSalesData)
      commissionRate == CommissionRate(totalRevenue, totalCommission)
      bestRule == BestRule(applicableRules, commissionRate)
  IN
  IF bestRule = <<>>
  THEN <<[user_id |-> userId,
          user_name |-> GetUserName(userId),
          total_revenue |-> totalRevenue,
          total_commission |-> totalCommission,
          commission_rate |-> commissionRate,
          applicable_rule |-> <<>>,
          current_tier |-> <<>>,
          next_tier |-> <<>>,
          incentive_amount |-> RatInt(0),
          progress_percentage |-> RatInt(0),
          remaining_to_next_tier |-> 0,
          managed_accounts_count |-> Len(userAccounts)]>>
  ELSE
  LET qualifyingRevenue == QualifyingRevenue(userAccounts, userSalesData, bestRule[1])
      copy == SortedCopy(bestRule[1].tiers)
      sortedTiers == copy.sorted
      walk == TierWalk(sortedTiers, qualifyingRevenue, 1, 0, <<>>)
  IN  <<[user_id |-> userId,
         user_name |-> GetUserName(userId),
         total_revenue |-> totalRevenue,
         total_commission |-> totalCommission,
         commission_rate |-> commissionRate,
         applicable_rule |-> <<[bestRule[1] EXCEPT !.tiers = copy.tiers]>>,
         current_tier |-> walk.currentTier,
         next_tier |-> walk.nextTier,
         incentive_amount |-> Rat(walk.incentiveAmount, 100),
         progress_percentage |->
           ProgressPercentage(walk.currentTier, walk.nextTier, qualifyingRevenue,
                              bestRule[1]),
         remaining_to_next_tier |-> RemainingToNextTier(walk.nextTier, qualifyingRevenue),
         managed_accounts_count |-> Len(userAccounts)]>>

-----------------------------------------------------------------------------
(* incentiveCalculations, lines 190-221 *)

\* variant of UniqueUserIds: the Set is lost, a user id is kept once per account
UniqueUserIds_Repeated(accs, seen) ==
  LET owned == Filter(accs, {a \in Range(accs) : a.user_id # <<>>})
  IN  [i \in DOMAIN owned |-> owned[i].user_id]

\* line 200: [...new Set(accounts.map(acc => acc.user_id).filter(Boolean))];
\* an empty user_id is falsy, a Set keeps the first occurrence of each value
RECURSIVE UniqueUserIds(_, _)
UniqueUserIds(accs, seen) ==
  IF accs = <<>> THEN <<>>
  ELSE IF Head(accs).user_id = <<>> \/ Head(accs).user_id \in seen
       THEN UniqueUserIds(Tail(accs), seen)
       ELSE <<Head(accs).user_id>>
              \o UniqueUserIds(Tail(accs), seen \cup {Head(accs).user_id})

\* line 203
AccountsOfUser(userId) == Filter(accounts, {a \in Range(accounts) : a.user_id = userId})

\* lines 211-213
ManagedAccounts ==
  Filter(accounts, {a \in Range(accounts) : a.id \in currentUser.managed_accounts})

\* lines 202-208: one call per user id, null results skipped
RECURSIVE CalculationsFor(_, _)
CalculationsFor(userIds, activeRules) ==
  IF userIds = <<>> THEN <<>>
  ELSE CalculateUserIncentive(Head(userIds), AccountsOfUser(Head(userIds)),
                              salesData, activeRules)
         \o CalculationsFor(Tail(userIds), activeRules)

\* line 220: sort((a, b) => b.incentive_amount - a.incentive_amount), stable
RECURSIVE InsertCalculation(_, _)
InsertCalculation(sorted, c) ==
  IF sorted = <<>> THEN <<c>>
  ELSE IF RatLe(c.incentive_amount, Head(sorted).incentive_amount)
       THEN <<Head(sorted)>> \o InsertCalculation(Tail(sorted), c)
       ELSE <<c>> \o sorted

\* variant of SortCalculations: line 220 left out, the list stays in the order
\* the calculations were made in
SortCalculations_Unsorted(calcs) == calcs

RECURSIVE SortCalculations(_)
SortCalculations(calcs) ==
  IF calcs = <<>> THEN <<>>
  ELSE InsertCalculation(SortCalculations(SubSeq(calcs, 1, Len(calcs) - 1)),
                         calcs[Len(calcs)])

\* lines 190-221: the value the useMemo computes from the props and allUsers
IncentiveCalculationsMemo ==
  LET activeRules == ActiveRules(incentiveRules) IN
  IF Len(activeRules) = 0 THEN <<>>
  ELSE IF currentUser.role = "superadmin"
       THEN SortCalculations(CalculationsFor(UniqueUserIds(accounts, {}), activeRules))
       ELSE SortCalculations(
              CalculateUserIncentive(currentUser.id, ManagedAccounts, salesData,
                                     activeRules))

-----------------------------------------------------------------------------
(* filteredAndSortedCalculations, lines 224-264, and the summary, lines 274-277 *)

\* lines 228-232
ApplyFilter(calcs, filter) ==
  IF filter = "earning"
  THEN Filter(calcs, {c \in Range(calcs) : RatLt(RatInt(0), c.incentive_amount)})
  ELSE IF filter = "not_earning"
       THEN Filter(calcs, {c \in Range(calcs) : RatEq(c.incentive_amount, RatInt(0))})
       ELSE calcs

\* lines 238-258: the value the comparator reads
SortValue(c, key) ==
  CASE key = "incentive" -> c.incentive_amount
    [] key = "revenue" -> RatInt(c.total_revenue)
    [] key = "commission" -> RatInt(c.total_commission)
    [] key = "rate" -> c.commission_rate
    [] OTHER -> c.incentive_amount

\* line 260: whether the comparator's result for (a, b) is at most 0
ComparesAtMostZero(a, b, key, order) ==
  IF order = "desc"
  THEN RatLe(SortValue(b, key), SortValue(a, key))
  ELSE RatLe(SortValue(a, key), SortValue(b, key))

\* lines 235-261: filtered.sort(...), stable
RECURSIVE InsertDisplayed(_, _, _, _)
InsertDisplayed(sorted, c, key, order) ==
  IF sorted = <<>> THEN <<c>>
  ELSE IF ComparesAtMostZero(Head(sorted), c, key, order)
       THEN <<Head(sorted)>> \o InsertDisplayed(Tail(sorted), c, key, order)
       ELSE <<c>> \o sorted

RECURSIVE SortDisplayed(_, _, _)
SortDisplayed(calcs, key, order) ==
  IF calcs = <<>> THEN <<>>
  ELSE InsertDisplayed(SortDisplayed(SubSeq(calcs, 1, Len(calcs) - 1), key, order),
                       calcs[Len(calcs)], key, order)

\* variant of FilteredAndSorted: line 225 takes the array itself, not a copy,
\* so that under filter 'all' the sort reorders incentiveCalculations
FilteredAndSorted_InPlace(calcs, filter, key, order) ==
  LET sorted == SortDisplayed(ApplyFilter(calcs, filter), key, order)
  IN  [shown |-> sorted,
       calcs |-> IF filter \in {"earning", "not_earning"} THEN calcs ELSE sorted]

\* lines 224-264: shown is the memo's value; calcs is what the array
\* incentiveCalculations holds afterwards (the sort works on the copy of line 225
\* or on the new array a filter returns)
FilteredAndSorted(calcs, filter, key, order) ==
  [shown |-> SortDisplayed(ApplyFilter(calcs, filter), key, order), calcs |-> calcs]

\* lines 274-277, of a list of calculations: <<total incentives (in
\* hundredths), total revenue, total commission, users earning>>
RECURSIVE SumIncentives(_)
SumIncentives(calcs) ==
  IF calcs = <<>> THEN 0
  ELSE Head(calcs).incentive_amount.num + SumIncentives(Tail(calcs))

RECURSIVE SumRevenue(_)
SumRevenue(calcs) ==
  IF calcs = <<>> THEN 0 ELSE Head(calcs).total_revenue + SumRevenue(Tail(calcs))

RECURSIVE SumTotalCommission(_)
SumTotalCommission(calcs) ==
  IF calcs = <<>> THEN 0 ELSE Head(calcs).total_commission + SumTotalCommission(Tail(calcs))

Summary(calcs) ==
  [totalIncentives |-> Rat(SumIncentives(calcs), 100),
   totalRevenue |-> SumRevenue(calcs),
   totalCommission |-> SumTotalCommission(calcs),
   usersEarningIncentives |->
     Len(Filter(calcs, {c \in Range(calcs) : RatLt(RatInt(0), c.incentive_amount)}))]

-----------------------------------------------------------------------------
(* Inputs: the props the component is mounted with *)

U1 == <<"u", "1">>
U2 == <<"7", "f", "3", "a", "9", "c", "2", "e", "b", "4">>
U3 == <<"u", "3">>
NoUser == <<>>
Ann == <<"A", "n", "n">>
Budi == <<"B", "u", "d", "i">>

AccountNames == <<"a1", "a2", "a3", "a4">>
RuleNames == <<"r1", "r2", "r3", "r4">>

Tier(threshold, rate) == [revenue_threshold |-> threshold, incentive_rate |-> rate]

Rule(id, active, rmin, rmax, minCommission, base, tiers) ==
  [id |-> id, is_active |-> active, commission_rate_min |-> rmin,
   commission_rate_max |-> rmax, min_commission_threshold |-> minCommission,
   base_revenue_threshold |-> base, tiers |-> tiers]

Row(accountId, purchases, commission) ==
  [account_id |-> accountId, total_purchases |-> purchases,
   gross_commission |-> commission]

User(id, name, role, managed) ==
  [id |-> id, name |-> name, role |-> role, managed_accounts |-> managed]

Thresholds == {0, 100, 200}
Rates == {5, 10}
BaseThresholds == {100, 150, 300}
Revenues == {0, 25, 50, 100, 150, 250}
TierChoices == {Tier(t, r) : t \in Thresholds, r \in Rates}

\* <<total_purchases, gross_commission>> of the single row of the rule family:
\* commission rates 0 (no revenue), 0, 3, 5, 7, 10, 100 and 200 percent
RateRows == {<<0, 0>>, <<100, 0>>, <<100, 3>>, <<100, 5>>, <<100, 7>>, <<100, 10>>,
             <<100, 100>>, <<100, 200>>}
Bands == {<<0, 5>>, <<5, 10>>, <<10, 100>>, <<0, 50>>}

\* <<total_purchases, gross_commission>> of a row of the account family
AccountRows == {<<100, 5>>, <<100, 20>>}

\* React state right after construction, lines 34-37
InitState ==
  /\ allUsers = <<>>
  /\ sortBy = "incentive"
  /\ sortOrder = "desc"
  /\ filterBy = "all"
  /\ usersFetch = "idle"
  /\ mounted = FALSE
  /\ dirty = TRUE
  /\ incentiveCalculations = <<>>
  /\ filteredAndSortedCalculations = <<>>

\* one user, one account, one sales row: the rule's tiers and the revenue
\* vary, the base threshold is 0
InitTiers ==
  \E tiers \in SeqsUpTo(TierChoices, MaxTiers), revenue \in Revenues :
    /\ accounts = <<[id |-> "a1", user_id |-> U1]>>
    /\ salesData = <<Row("a1", revenue, 10)>>
    /\ incentiveRules = <<Rule("r1", TRUE, 0, 100, 0, 0, tiers)>>
    /\ currentUser = User(U1, Ann, "user", {"a1"})

\* the same with a base threshold above 0 and shorter tier lists
InitBase ==
  \E tiers \in SeqsUpTo(TierChoices, MaxBaseTiers), base \in BaseThresholds,
     revenue \in Revenues :
    /\ accounts = <<[id |-> "a1", user_id |-> U1]>>
    /\ salesData = <<Row("a1", revenue, 10)>>
    /\ incentiveRules = <<Rule("r1", TRUE, 0, 100, 0, base, tiers)>>
    /\ currentUser = User(U1, Ann, "user", {"a1"})

\* one user, one account, one sales row: the rule list and the commission
\* rate vary
InitRules ==
  \E n \in 0..MaxRules, row \in RateRows :
    \E shape \in [1..n -> BOOLEAN \X Bands] :
      /\ accounts = <<[id |-> "a1", user_id |-> U1]>>
      /\ salesData = <<Row("a1", row[1], row[2])>>
      /\ incentiveRules =
           [i \in 1..n |-> Rule(RuleNames[i], shape[i][1], shape[i][2][1],
                                shape[i][2][2], 0, 0, <<Tier(0, 5)>>)]
      /\ currentUser = User(U1, Ann, "user", {"a1"})

\* the sales rows of the account and sales families, as <<account_id, row>>
FewRows ==
  {<<>>,
   <<<<"a1", <<100, 20>>>>>>,
   <<<<"a1", <<100, 5>>>>, <<"a2", <<100, 20>>>>>>}

SalesRows(rows) == [i \in DOMAIN rows |-> Row(rows[i][1], rows[i][2][1], rows[i][2][2])]

AccountRule(active) ==
  Rule("r1", active, 0, 100, 10, 0, <<Tier(0, 5), Tier(100, 10)>>)

\* the account list, the owners, the role and the managed accounts vary
InitAccounts ==
  \E n \in 0..MaxAccounts, active \in BOOLEAN, rows \in FewRows,
     user \in {User(U1, Ann, "superadmin", {})}
                \cup {User(U1, Ann, "user", m) : m \in SUBSET {"a1", "a2"}} :
    \E owner \in [1..n -> {NoUser, U1, U2}] :
      /\ accounts = [i \in 1..n |-> [id |-> AccountNames[i], user_id |-> owner[i]]]
      /\ salesData = SalesRows(rows)
      /\ incentiveRules = <<AccountRule(active)>>
      /\ currentUser = user

\* two accounts of one or of two users: the sales rows vary, also rows of an
\* account that is not in the list
InitSales ==
  \E second \in {U1, U2},
     rows \in SeqsUpTo({"a1", "a2", "a3"} \X AccountRows, MaxRows),
     user \in {User(U1, Ann, "superadmin", {}), User(U1, Ann, "user", {"a1"}),
               User(U1, Ann, "user", {"a1", "a2"})} :
    /\ accounts = <<[id |-> "a1", user_id |-> U1], [id |-> "a2", user_id |-> second]>>
    /\ salesData = SalesRows(rows)
    /\ incentiveRules = <<AccountRule(TRUE)>>
    /\ currentUser = user

\* the sales rows of the listing family, as <<total_purchases, gross_commission>>
ViewRows ==
  [a1 |-> {<<100, 5>>, <<100, 20>>},
   a2 |-> {<<100, 20>>, <<200, 20>>},
   a3 |-> {<<100, 5>>, <<400, 20>>}]

\* a superadmin's listing of three users with one account each: the sales
\* row of each account varies
InitView ==
  \E row \in {r \in [{"a1", "a2", "a3"} -> UNION Range(ViewRows)] :
                \A a \in DOMAIN r : r[a] \in ViewRows[a]} :
    /\ accounts = <<[id |-> "a1", user_id |-> U1], [id |-> "a2", user_id |-> U2],
                    [id |-> "a3", user_id |-> U3]>>
    /\ salesData = <<Row("a1", row["a1"][1], row["a1"][2]),
                     Row("a2", row["a2"][1], row["a2"][2]),
                     Row("a3", row["a3"][1], row["a3"][2])>>
    /\ incentiveRules = <<AccountRule(TRUE)>>
    /\ currentUser = User(U1, Ann, "superadmin", {})

\* two accounts, for a superadmin or a regular user: the owners and the
\* sales rows vary
InitFetch ==
  \E owner \in [1..2 -> {NoUser, U1, U2}], rows \in FewRows,
     user \in {User(U1, Ann, "superadmin", {}), User(U1, Ann, "user", {"a1"})} :
    /\ accounts = [i \in 1..2 |-> [id |-> AccountNames[i], user_id |-> owner[i]]]
    /\ salesData = SalesRows(rows)
    /\ incentiveRules = <<AccountRule(TRUE)>>
    /\ currentUser = user

Init == InitState /\ (InitTiers \/ InitBase \/ InitRules \/ InitAccounts \/ InitSales)

-----------------------------------------------------------------------------
(* Steps of the component *)

\* what fetchUsers() may resolve to
Directories ==
  {<<>>,
   <<User(U2, Budi, "user", {})>>,
   <<User(U1, Budi, "user", {}), User(U2, Budi, "user", {})>>}

\* variant of Render: allUsers is not among the dependencies of line 221, so
\* after the first pass the first memo returns its cached array
Render_WithoutAllUsers ==
  /\ dirty
  /\ LET calcs == IF mounted THEN incentiveCalculations ELSE IncentiveCalculationsMemo
         pass == FilteredAndSorted(calcs, filterBy, sortBy, sortOrder)
     IN  /\ incentiveCalculations' = pass.calcs
         /\ filteredAndSortedCalculations' = pass.shown
  /\ mounted' = TRUE
  /\ dirty' = FALSE
  /\ UNCHANGED <<accounts, salesData, incentiveRules, currentUser, allUsers, sortBy,
                 sortOrder, filterBy, usersFetch>>

\* a render pass: the component function runs and both memos are evaluated.
\* The first memo's dependencies (line 221) are the props and allUsers; when
\* they are unchanged React returns the cached array, which is the value the
\* memo would compute again.
Render ==
  /\ dirty
  /\ LET pass == FilteredAndSorted(IncentiveCalculationsMemo, filterBy, sortBy, sortOrder)
     IN  /\ incentiveCalculations' = pass.calcs
         /\ filteredAndSortedCalculations' = pass.shown
  /\ mounted' = TRUE
  /\ dirty' = FALSE
  /\ UNCHANGED <<accounts, salesData, incentiveRules, currentUser, allUsers, sortBy,
                 sortOrder, filterBy, usersFetch>>

\* lines 40-53: the effect after the first render; only a superadmin fetches
LoadUsers ==
  /\ mounted
  /\ usersFetch = "idle"
  /\ usersFetch' = IF currentUser.role = "superadmin" THEN "pending" ELSE "skipped"
  /\ UNCHANGED <<accounts, salesData, incentiveRules, currentUser, allUsers, sortBy,
                 sortOrder, filterBy, mounted, dirty, incentiveCalculations,
                 filteredAndSortedCalculations>>

\* lines 44-45: the fetch resolves, setAllUsers schedules a render
FetchUsersResolved ==
  /\ usersFetch = "pending"
  /\ \E users \in Directories : allUsers' = users
  /\ usersFetch' = "loaded"
  /\ dirty' = TRUE
  /\ UNCHANGED <<accounts, salesData, incentiveRules, currentUser, sortBy,
                 sortOrder, filterBy, mounted, incentiveCalculations,
                 filteredAndSortedCalculations>>

\* lines 46-48: the fetch rejects, the error is caught and logged
FetchUsersRejected ==
  /\ usersFetch = "pending"
  /\ usersFetch' = "failed"
  /\ UNCHANGED <<accounts, salesData, incentiveRules, currentUser, allUsers, sortBy,
                 sortOrder, filterBy, mounted, dirty, incentiveCalculations,
                 filteredAndSortedCalculations>>

Next == Render \/ LoadUsers \/ FetchUsersResolved \/ FetchUsersRejected

Spec == Init /\ [][Next]_vars

\* the component on two accounts under React's scheduling: a render
\* that was asked for (the first, or by setAllUsers) takes place, and the
\* effect runs after the first render; whether and when the fetch settles is
\* up to the server. RenderPass is a step that completes a pending render:
\* among the steps of Next these are the Render steps.
RenderPass == dirty /\ dirty' = FALSE

FetchInit == InitState /\ InitFetch

SpecFetch ==
  /\ FetchInit
  /\ [][Next]_vars
  /\ WF_dirty(RenderPass) /\ WF_vars(LoadUsers)

RenderPassIsRender == [][RenderPass <=> Render]_vars

\* the component in the hands of a regular user, on the tier families: the
\* effect of lines 40-53 runs and issues no fetch, so no fetch can settle
NextTiers == Render \/ LoadUsers

TiersInit == InitState /\ (InitTiers \/ InitBase)

SpecTiers == TiersInit /\ [][NextTiers]_vars

\* the filter and sort controls are rendered only with an active rule
\* (line 296) and only once the component is on screen
ControlsShown == mounted /\ Len(ActiveRules(incentiveRules)) > 0

\* line 381: the filter select's onChange
SetFilterBy ==
  /\ ControlsShown
  /\ \E value \in {"all", "earning", "not_earning"} :
       /\ value # filterBy
       /\ filterBy' = value
  /\ dirty' = TRUE
  /\ UNCHANGED <<accounts, salesData, incentiveRules, currentUser, allUsers, sortBy,
                 sortOrder, usersFetch, mounted, incentiveCalculations,
                 filteredAndSortedCalculations>>

\* line 397: the sort select's onChange
SetSortBy ==
  /\ ControlsShown
  /\ \E value \in {"incentive", "revenue", "commission", "rate"} :
       /\ value # sortBy
       /\ sortBy' = value
  /\ dirty' = TRUE
  /\ UNCHANGED <<accounts, salesData, incentiveRules, currentUser, allUsers,
                 sortOrder, filterBy, usersFetch, mounted, incentiveCalculations,
                 filteredAndSortedCalculations>>

\* line 408: the order button's onClick
ToggleSortOrder ==
  /\ ControlsShown
  /\ sortOrder' = IF sortOrder = "desc" THEN "asc" ELSE "desc"
  /\ dirty' = TRUE
  /\ UNCHANGED <<accounts, salesData, incentiveRules, currentUser, allUsers, sortBy,
                 filterBy, usersFetch, mounted, incentiveCalculations,
                 filteredAndSortedCalculations>>

\* the component with its controls in use, on the listing family
NextView ==
  \/ Render \/ LoadUsers \/ FetchUsersResolved \/ FetchUsersRejected
  \/ SetFilterBy \/ SetSortBy \/ ToggleSortOrder

ViewInit == InitState /\ InitView

SpecView == ViewInit /\ [][NextView]_vars

-----------------------------------------------------------------------------
(* What the properties are stated over *)

\* The calls of calculateUserIncentive examined in a state: one per user id
\* with that user's accounts (line 204) and one for the current user with
\* the managed accounts (line 214), as <<userId, userAccounts>>
Calls ==
  {<<u, AccountsOfUser(u)>> : u \in {U1, U2}} \cup {<<currentUser.id, ManagedAccounts>>}

Returned(call) == CalculateUserIncentive(call[1], call[2], salesData, incentiveRules)

AccountIdsOf(userAccounts) == {userAccounts[i].id : i \in DOMAIN userAccounts}

\* sums over the sales rows of a set of account ids, row by row
RECURSIVE RevenueOfRows(_)
RevenueOfRows(I) ==
  IF I = {} THEN 0
  ELSE LET i == CHOOSE j \in I : TRUE
       IN  salesData[i].total_purchases + RevenueOfRows(I \ {i})

RECURSIVE CommissionOfRows(_)
CommissionOfRows(I) ==
  IF I = {} THEN 0
  ELSE LET i == CHOOSE j \in I : TRUE
       IN  salesData[i].gross_commission + CommissionOfRows(I \ {i})

RowsOf(ids) == {i \in DOMAIN salesData : salesData[i].account_id \in ids}
RevenueOf(ids) == RevenueOfRows(RowsOf(ids))
CommissionOf(ids) == CommissionOfRows(RowsOf(ids))

SomeRuleActive == \E i \in DOMAIN incentiveRules : incentiveRules[i].is_active

\* a calculation without its display name
Unnamed(c) == [c EXCEPT !.user_name = <<>>]

\* the accounts with a user id, and the accounts the current user manages
OwnedBy(u) == LET Test(a) == a.user_id = u IN SelectSeq(accounts, Test)
Managed == LET Test(a) == a.id \in currentUser.managed_accounts
           IN  SelectSeq(accounts, Test)

\* the calculations of the rendered list, and those the examined calls
\* return, each as <<userAccounts, calculation>>
Listed ==
  {<<IF currentUser.role = "superadmin" THEN OwnedBy(c.user_id) ELSE Managed, c>> :
     c \in Range(incentiveCalculations)}
Computed == {<<call[2], Returned(call)[1]>> : call \in {k \in Calls : Returned(k) # <<>>}}
Results == Listed \cup Computed

\* the accounts among ids that qualify under a rule: own commission at least
\* the rule's minimum
QualifyingIds(ids, rule) ==
  {a \in ids : CommissionOf({a}) >= rule.min_commission_threshold}

\* whether a rule is active and its band holds a (finite) rate; a maximum of
\* 100 is open-ended
InBand(rule, rate) ==
  /\ rule.is_active
  /\ rule.commission_rate_min * rate.den <= rate.num
  /\ rule.commission_rate_max = 100 \/ rate.num <= rule.commission_rate_max * rate.den

\* the graduated sum over tiers sorted by threshold, from tier i on, in hundredths
RECURSIVE GraduatedSum(_, _, _)
GraduatedSum(sorted, i, revenue) ==
  IF i > Len(sorted) THEN 0
  ELSE (IF sorted[i].revenue_threshold <= revenue
        THEN (Min(revenue,
                  IF i < Len(sorted) THEN sorted[i + 1].revenue_threshold ELSE revenue)
                - sorted[i].revenue_threshold) * sorted[i].incentive_rate
        ELSE 0)
       + GraduatedSum(sorted, i + 1, revenue)

-----------------------------------------------------------------------------
(* C1: when a rule is matched, incentive_amount is the graduated sum over  *)
(* the rule's tiers in ascending threshold order: every tier at or below   *)
(* the qualifying revenue contributes its band (up to the next tier's      *)
(* threshold, capped at the qualifying revenue) times its rate percent;    *)
(* tiers (0, 5%) and (1000000, 10%) with revenue 1500000 give 100000.     *)
C1_GraduatedIncentive ==
  /\ \A x \in Listed :
       x[2].applicable_rule # <<>> =>
         LET c == x[2]
             rule == c.applicable_rule[1]
             revenue == RevenueOf(QualifyingIds(AccountIdsOf(x[1]), rule))
         IN  c.incentive_amount.num * 100
               = GraduatedSum(SortTiers(rule.tiers), 1, revenue) * c.incentive_amount.den
  /\ TierWalk(SortTiers(<<Tier(0, 5), Tier(1000000, 10)>>), 1500000, 1, 0, <<>>)
       .incentiveAmount = 100000 * 100

(* C1 holds of every rule in which no tier but the lowest has threshold 0 *)
C1_GraduatedUnlessLaterZero ==
  \A x \in Results :
    x[2].applicable_rule # <<>> =>
      LET c == x[2]
          rule == c.applicable_rule[1]
          sorted == SortTiers(rule.tiers)
          revenue == RevenueOf(QualifyingIds(AccountIdsOf(x[1]), rule))
      IN  (\A i \in 2..Len(sorted) : sorted[i].revenue_threshold # 0) =>
            c.incentive_amount.num * 100
              = GraduatedSum(sorted, 1, revenue) * c.incentive_amount.den

(* C2: under the matched rule an account qualifies exactly when the sum of *)
(* gross_commission over its own rows reaches min_commission_threshold;   *)
(* the qualifying revenue, and with it the tiers and the incentive, count  *)
(* only the rows of qualifying accounts, while total_revenue and           *)
(* total_commission count every row of the user's accounts.                *)
C2_QualifyingAccounts ==
  \A x \in Results :
    x[2].applicable_rule # <<>> =>
      LET c == x[2]
          rule == c.applicable_rule[1]
          ids == AccountIdsOf(x[1])
          rows == UserSalesData(x[1], salesData)
          revenue == RevenueOf(QualifyingIds(ids, rule))
          walk == TierWalk(SortTiers(rule.tiers), revenue, 1, 0, <<>>)
      IN  /\ QualifyingAccountIds(x[1], rows, rule) = QualifyingIds(ids, rule)
          /\ QualifyingRevenue(x[1], rows, rule) = revenue
          /\ c.current_tier = walk.currentTier
          /\ c.next_tier = walk.nextTier
          /\ c.incentive_amount = Rat(walk.incentiveAmount, 100)
          /\ c.remaining_to_next_tier = RemainingToNextTier(walk.nextTier, revenue)
          /\ c.total_revenue = RevenueOf(ids)
          /\ c.total_commission = CommissionOf(ids)

\* a listed user with one qualifying account (commission 20) and one that is
\* not (commission 5): revenue 200, of which 100 earns 5 percent
C2_Witness ==
  /\ mounted
  /\ \E i \in DOMAIN incentiveCalculations :
       LET c == incentiveCalculations[i] IN
       /\ c.applicable_rule # <<>>
       /\ c.applicable_rule[1].min_commission_threshold = 10
       /\ c.managed_accounts_count = 2
       /\ c.total_revenue = 200
       /\ c.total_commission = 25
       /\ c.incentive_amount = Rat(500, 100)
       /\ c.remaining_to_next_tier = 0

\* the first rule, in input order, that is active and whose band holds the rate
FirstInBand(rate) ==
  LET I == {i \in DOMAIN incentiveRules : InBand(incentiveRules[i], rate)}
  IN  IF I = {} THEN <<>>
      ELSE <<incentiveRules[CHOOSE i \in I : \A j \in I : i <= j]>>

(* C3: the applicable rule is the first rule, in input order, among the    *)
(* active rules with commission_rate_min <= rate <= commission_rate_max,   *)
(* a maximum of 100 being open-ended; an earlier matching rule wins and an *)
(* inactive rule is never selected.                                        *)
C3_FirstMatchingRule ==
  \A x \in Results :
    /\ x[2].applicable_rule = FirstInBand(x[2].commission_rate)
    /\ x[2].applicable_rule # <<>> => x[2].applicable_rule[1].is_active

\* an inactive rule whose band holds the rate is passed over for the active
\* rule after it, whose maximum of 100 admits a rate of 200 percent
C3_Witness ==
  /\ mounted
  /\ Len(incentiveRules) = 2
  /\ ~incentiveRules[1].is_active
  /\ incentiveRules[1].commission_rate_max = 100
  /\ incentiveRules[2].is_active
  /\ incentiveRules[2].commission_rate_max = 100
  /\ \E i \in DOMAIN incentiveCalculations :
       /\ incentiveCalculations[i].commission_rate = Rat(20000, 100)
       /\ incentiveCalculations[i].applicable_rule = <<incentiveRules[2]>>

(* C4: with at least one account, at least one active rule and no active   *)
(* rule whose band holds the rate, the result is a calculation (not null)  *)
(* with applicable_rule, current_tier and next_tier null and               *)
(* incentive_amount, progress_percentage and remaining_to_next_tier 0,     *)
(* while the totals, the rate and the account count carry their values.    *)
C4_NoApplicableRule ==
  /\ \A call \in Calls :
       LET ids == AccountIdsOf(call[2])
           rate == IF RevenueOf(ids) = 0 THEN RatInt(0)
                   ELSE [num |-> CommissionOf(ids) * 100, den |-> RevenueOf(ids)]
       IN  (Len(call[2]) > 0 /\ SomeRuleActive /\ FirstInBand(rate) = <<>>) =>
             /\ Returned(call) # <<>>
             /\ Returned(call)[1].applicable_rule = <<>>
             /\ RatEq(Returned(call)[1].commission_rate, rate)
  /\ \A x \in Results :
       x[2].applicable_rule = <<>> =>
         /\ x[2].current_tier = <<>>
         /\ x[2].next_tier = <<>>
         /\ x[2].incentive_amount = RatInt(0)
         /\ x[2].progress_percentage = RatInt(0)
         /\ x[2].remaining_to_next_tier = 0
         /\ x[2].total_revenue = RevenueOf(AccountIdsOf(x[1]))
         /\ x[2].total_commission = CommissionOf(AccountIdsOf(x[1]))
         /\ x[2].managed_accounts_count = Len(x[1])
         /\ x[2].managed_accounts_count > 0

\* rate 7 percent under rules for 0 to 5 and 10 to 100 percent
C4_Witness ==
  /\ mounted
  /\ Len(incentiveRules) = 2
  /\ \E i, j \in DOMAIN incentiveRules :
       /\ incentiveRules[i].is_active
       /\ incentiveRules[i].commission_rate_min = 0
       /\ incentiveRules[i].commission_rate_max = 5
       /\ incentiveRules[j].is_active
       /\ incentiveRules[j].commission_rate_min = 10
       /\ incentiveRules[j].commission_rate_max = 100
  /\ Len(incentiveCalculations) = 1
  /\ incentiveCalculations[1].commission_rate = Rat(700, 100)
  /\ incentiveCalculations[1].total_revenue = 100
  /\ incentiveCalculations[1].applicable_rule = <<>>
  /\ incentiveCalculations[1].incentive_amount = RatInt(0)

(* C5: progress_percentage of every calculation lies in [0, 100].          *)
C5_ProgressWithinBounds ==
  \A x \in Listed :
    /\ RatLe(RatInt(0), x[2].progress_percentage)
    /\ RatLe(x[2].progress_percentage, RatInt(100))

(* C5, upper half: progress_percentage never exceeds 100 and is never NaN  *)
C5_ProgressAtMost100 ==
  \A x \in Results : RatLe(x[2].progress_percentage, RatInt(100))

(* C6: remaining_to_next_tier is never negative: it is the next tier's     *)
(* threshold minus the qualifying revenue, or 0 if that is negative, when  *)
(* a next tier exists, and 0 otherwise.                                    *)
C6_RemainingToNextTier ==
  \A x \in Results :
    /\ x[2].remaining_to_next_tier >= 0
    /\ x[2].next_tier = <<>> => x[2].remaining_to_next_tier = 0
    /\ x[2].next_tier # <<>> =>
         x[2].remaining_to_next_tier =
           Max(x[2].next_tier[1].revenue_threshold
                 - RevenueOf(QualifyingIds(AccountIdsOf(x[1]), x[2].applicable_rule[1])),
               0)

\* a listed calculation 50 short of its next tier
C6_Witness ==
  /\ mounted
  /\ \E i \in DOMAIN incentiveCalculations :
       /\ incentiveCalculations[i].next_tier # <<>>
       /\ incentiveCalculations[i].next_tier[1].revenue_threshold = 200
       /\ incentiveCalculations[i].total_revenue = 150
       /\ incentiveCalculations[i].remaining_to_next_tier = 50

(* C7 as claimed: a matched rule and no next tier give progress 100 and    *)
(* remaining 0.                                                            *)
C7_NoNextTierIsComplete ==
  \A x \in Listed :
    (x[2].applicable_rule # <<>> /\ x[2].next_tier = <<>>) =>
      /\ x[2].progress_percentage = RatInt(100)
      /\ x[2].remaining_to_next_tier = 0

(* C7, amended: a matched rule, no next tier and a current tier give       *)
(* progress 100 and remaining 0; a matched rule without tiers gives no     *)
(* current tier, no next tier, progress 0 and remaining 0.                 *)
C7_TopTierIsComplete ==
  \A x \in Results :
    x[2].applicable_rule # <<>> =>
      /\ (x[2].next_tier = <<>> /\ x[2].current_tier # <<>>) =>
           /\ x[2].progress_percentage = RatInt(100)
           /\ x[2].remaining_to_next_tier = 0
      /\ x[2].applicable_rule[1].tiers = <<>> =>
           /\ x[2].current_tier = <<>>
           /\ x[2].next_tier = <<>>
           /\ x[2].progress_percentage = RatInt(0)
           /\ x[2].remaining_to_next_tier = 0
      /\ (x[2].next_tier = <<>> /\ x[2].current_tier = <<>>) =>
           x[2].applicable_rule[1].tiers = <<>>

\* a rule with a single tier whose threshold the revenue exceeds
C7_Witness ==
  /\ mounted
  /\ \E i \in DOMAIN incentiveCalculations :
       LET c == incentiveCalculations[i] IN
       /\ c.applicable_rule # <<>>
       /\ Len(c.applicable_rule[1].tiers) = 1
       /\ c.total_revenue > c.applicable_rule[1].tiers[1].revenue_threshold
       /\ c.current_tier = <<c.applicable_rule[1].tiers[1]>>
       /\ c.next_tier = <<>>
       /\ c.progress_percentage = RatInt(100)
       /\ c.remaining_to_next_tier = 0

-----------------------------------------------------------------------------
(* C8: total_revenue and total_commission are the sums of total_purchases  *)
(* and gross_commission over exactly the sales rows of the user's accounts; *)
(* commission_rate is total_commission / total_revenue * 100, and 0 when   *)
(* total_revenue is 0; the rate is always finite.                          *)
C8_TotalsAndRate ==
  \A x \in Results :
      LET c == x[2]
          ids == AccountIdsOf(x[1])
      IN  /\ c.total_revenue = RevenueOf(ids)
          /\ c.total_commission = CommissionOf(ids)
          /\ RatIsFinite(c.commission_rate)
          /\ RevenueOf(ids) = 0 => c.commission_rate.num = 0
          /\ RevenueOf(ids) # 0 =>
               c.commission_rate.num * RevenueOf(ids)
                 = CommissionOf(ids) * 100 * c.commission_rate.den

\* a listed user without revenue whose rate is 0, beside rows of other accounts
C8_Witness ==
  /\ mounted
  /\ \E i \in DOMAIN incentiveCalculations :
       /\ incentiveCalculations[i].total_revenue = 0
       /\ incentiveCalculations[i].commission_rate = RatInt(0)
  /\ \E i \in DOMAIN salesData : salesData[i].total_purchases > 0

(* C9: calculateUserIncentive returns null exactly when the account list is *)
(* empty or no rule is active; with no active rule the computed list is    *)
(* empty, and a user without accounts has no entry in the list.            *)
C9_NullExactly ==
  /\ \A call \in Calls :
       Returned(call) = <<>> <=> (Len(call[2]) = 0 \/ ~SomeRuleActive)
  /\ ~SomeRuleActive => IncentiveCalculationsMemo = <<>> /\ incentiveCalculations = <<>>
  /\ \A c \in Range(IncentiveCalculationsMemo) \cup Range(incentiveCalculations) :
       IF currentUser.role = "superadmin"
       THEN \E i \in DOMAIN accounts : accounts[i].user_id = c.user_id
       ELSE \E i \in DOMAIN accounts : accounts[i].id \in currentUser.managed_accounts

\* rendered with accounts present and only inactive rules: nothing is listed
C9_Witness ==
  /\ mounted
  /\ Len(accounts) > 0
  /\ Len(incentiveRules) > 0
  /\ ~SomeRuleActive
  /\ incentiveCalculations = <<>>

(* C10: with an active rule, the superadmin's list holds exactly one       *)
(* calculation per distinct non-empty user_id of the account list, each    *)
(* computed from the accounts with that user_id; any other role's list     *)
(* holds at most one calculation, for the current user's id, computed from *)
(* the accounts whose id is in managed_accounts.                           *)
C10_ListOf(list) ==
  LET userIds == {accounts[i].user_id : i \in DOMAIN accounts} \ {NoUser}
  IN  IF currentUser.role = "superadmin"
      THEN /\ {list[i].user_id : i \in DOMAIN list} = userIds
           /\ Len(list) = Cardinality(userIds)
           /\ \A i \in DOMAIN list :
                /\ list[i].managed_accounts_count = Len(OwnedBy(list[i].user_id))
                /\ list[i].total_revenue = RevenueOf(AccountIdsOf(OwnedBy(list[i].user_id)))
                /\ <<Unnamed(list[i])>> =
                     [k \in DOMAIN Returned(<<list[i].user_id, OwnedBy(list[i].user_id)>>) |->
                        Unnamed(Returned(<<list[i].user_id, OwnedBy(list[i].user_id)>>)[k])]
      ELSE /\ Len(list) <= 1
           /\ \A i \in DOMAIN list :
                /\ list[i].user_id = currentUser.id
                /\ list[i].managed_accounts_count = Len(Managed)
                /\ list[i].total_revenue = RevenueOf(AccountIdsOf(Managed))
                /\ <<Unnamed(list[i])>> =
                     [k \in DOMAIN Returned(<<currentUser.id, Managed>>) |->
                        Unnamed(Returned(<<currentUser.id, Managed>>)[k])]

C10_OnePerUser ==
  SomeRuleActive =>
    /\ C10_ListOf(IncentiveCalculationsMemo)
    /\ mounted => C10_ListOf(incentiveCalculations)

\* a superadmin's rendered list of two users over accounts one of which has no user
C10_Witness ==
  /\ mounted
  /\ currentUser.role = "superadmin"
  /\ Len(incentiveCalculations) = 2
  /\ incentiveCalculations[1].user_id # incentiveCalculations[2].user_id
  /\ Len(accounts) > 2
  /\ \E i \in DOMAIN accounts : accounts[i].user_id = NoUser

\* whether the values of a key never rise (desc) or never fall (asc) along a list
OrderedBy(list, key, order) ==
  \A i \in 1..(Len(list) - 1) :
    IF order = "desc"
    THEN RatLe(SortValue(list[i + 1], key), SortValue(list[i], key))
    ELSE RatLe(SortValue(list[i], key), SortValue(list[i + 1], key))

InitialUIState == filterBy = "all" /\ sortBy = "incentive" /\ sortOrder = "desc"

(* C11: the computed list is in non-increasing order of incentive_amount:  *)
(* no entry is followed by one with a larger incentive. In the initial UI  *)
(* state (filter 'all', sort by incentive, descending) the displayed list  *)
(* is that list, in the same order.                                        *)
C11_OrderedByIncentive ==
  /\ \A i \in 1..(Len(IncentiveCalculationsMemo) - 1) :
       RatLe(IncentiveCalculationsMemo[i + 1].incentive_amount,
             IncentiveCalculationsMemo[i].incentive_amount)
  /\ mounted =>
       \A i \in 1..(Len(incentiveCalculations) - 1) :
         RatLe(incentiveCalculations[i + 1].incentive_amount,
               incentiveCalculations[i].incentive_amount)
  /\ mounted /\ ~dirty /\ InitialUIState =>
       /\ filteredAndSortedCalculations = incentiveCalculations
       /\ OrderedBy(filteredAndSortedCalculations, "incentive", "desc")

\* the initial UI state reached again after the controls were used, showing
\* three users with three different incentives, the last account's user first
C11_Witness ==
  /\ mounted /\ ~dirty /\ InitialUIState
  /\ usersFetch = "loaded"
  /\ Len(filteredAndSortedCalculations) = 3
  /\ filteredAndSortedCalculations[1].user_id = U3
  /\ filteredAndSortedCalculations[3].user_id = U1
  /\ RatLt(filteredAndSortedCalculations[2].incentive_amount,
           filteredAndSortedCalculations[1].incentive_amount)
  /\ RatLt(filteredAndSortedCalculations[3].incentive_amount,
           filteredAndSortedCalculations[2].incentive_amount)

\* the entries of a list a filter value lets through, in the list's order
SubList(list, filter) ==
  LET Test(c) == CASE filter = "earning" -> RatLt(RatInt(0), c.incentive_amount)
                   [] filter = "not_earning" -> RatEq(c.incentive_amount, RatInt(0))
                   [] OTHER -> TRUE
  IN  SelectSeq(list, Test)

\* whether a list is a reordering of another whose entries differ pairwise
Reordering(list, of) == Len(list) = Len(of) /\ Range(list) = Range(of)

\* whether the names in the rendered list are those the directory now gives
NamesCurrent ==
  \A i \in DOMAIN incentiveCalculations :
    incentiveCalculations[i].user_name = GetUserName(incentiveCalculations[i].user_id)

\* the displayed list after a render pass
C12_Displayed ==
  mounted /\ ~dirty =>
    /\ Reordering(filteredAndSortedCalculations, SubList(incentiveCalculations, filterBy))
    /\ OrderedBy(filteredAndSortedCalculations, sortBy, sortOrder)

(* C12: whatever filter changes, sort-key changes and order toggles are    *)
(* made, no step changes the summary (total incentives, total revenue,     *)
(* total commission, users earning) and no step changes the computed list  *)
(* (but for a render that brings in the names of a newly loaded            *)
(* directory); after every render the displayed list is a reordering of    *)
(* the list's entries let through by the filter (all, incentive > 0,       *)
(* incentive = 0), ordered by the chosen key in the chosen direction.      *)
C12_ControlsOnlyChangeDisplay ==
  [][/\ mounted => Summary(incentiveCalculations') = Summary(incentiveCalculations)
     /\ mounted /\ NamesCurrent => incentiveCalculations' = incentiveCalculations
     /\ C12_Displayed']_vars

\* the earning users shown by ascending revenue, in another order
\* than the computed list has them, and one user filtered out
C12_Witness ==
  /\ mounted /\ ~dirty
  /\ filterBy = "earning" /\ sortBy = "revenue" /\ sortOrder = "asc"
  /\ Len(incentiveCalculations) = 3
  /\ Len(filteredAndSortedCalculations) = 2
  /\ filteredAndSortedCalculations # SubList(incentiveCalculations, "earning")
  /\ Summary(incentiveCalculations).usersEarningIncentives = 2

\* the rendered list without the display names
UnnamedList == [i \in DOMAIN incentiveCalculations |-> Unnamed(incentiveCalculations[i])]

\* the name the claims give a user id: the current user's own name, else the
\* name of the directory entry with that id, else 'User ' and the first
\* eight characters of the id
InDirectory(userId) == \E i \in DOMAIN allUsers : allUsers[i].id = userId
DirectoryName(userId) ==
  allUsers[CHOOSE i \in DOMAIN allUsers :
             /\ allUsers[i].id = userId
             /\ \A j \in 1..(i - 1) : allUsers[j].id # userId].name
FallbackName(userId) ==
  <<"U", "s", "e", "r", " ">> \o [i \in 1..Min(8, Len(userId)) |-> userId[i]]
ExpectedName(userId) ==
  IF userId = currentUser.id THEN currentUser.name
  ELSE IF InDirectory(userId) THEN DirectoryName(userId)
       ELSE FallbackName(userId)

(* C13: once the list is rendered, no step of the directory fetch (issued, *)
(* resolved, rejected) and no later render changes which users it holds or *)
(* any field of an entry other than user_name; after every render each     *)
(* user_name is currentUser.name for the current user's id, else the       *)
(* directory's name for an id in the loaded directory, else 'User ' and    *)
(* the first 8 characters of the id; a rejected fetch leaves the directory *)
(* empty and the list and the display as they were.                        *)
C13_FetchOnlyChangesNames ==
  [][/\ mounted => UnnamedList' = UnnamedList
     /\ mounted' /\ ~dirty' =>
          \A i \in DOMAIN incentiveCalculations' :
            incentiveCalculations'[i].user_name =
              ExpectedName(incentiveCalculations[i].user_id)'
     /\ usersFetch' = "failed" =>
          /\ allUsers' = <<>>
          /\ mounted'
          /\ UNCHANGED <<incentiveCalculations, filteredAndSortedCalculations>>]_vars

\* after a rejected fetch the list shows the current user by name and the
\* other user by the fallback name
C13_Witness ==
  /\ mounted /\ ~dirty
  /\ usersFetch = "failed"
  /\ Len(incentiveCalculations) = 2
  /\ \E i \in DOMAIN incentiveCalculations :
       /\ incentiveCalculations[i].user_id = U2
       /\ incentiveCalculations[i].user_name =
            <<"U", "s", "e", "r", " ", "7", "f", "3", "a", "9", "c", "2", "e">>
  /\ \E i \in DOMAIN incentiveCalculations :
       /\ incentiveCalculations[i].user_id = U1
       /\ incentiveCalculations[i].user_name = Ann

\* whether, for a calculation c over userAccounts, raising the qualifying
\* revenue inside the band it lies in (strictly between two adjacent
\* thresholds) raises the incentive by the lower tier's rate percent
LinearInBand(userAccounts, c) ==
  LET rule == c.applicable_rule[1]
      sorted == SortTiers(rule.tiers)
      revenue == RevenueOf(QualifyingIds(AccountIdsOf(userAccounts), rule))
  IN  \A j \in 1..(Len(sorted) - 1) :
        sorted[j].revenue_threshold < revenue
          /\ revenue < sorted[j + 1].revenue_threshold =>
            \A d \in 1..(sorted[j + 1].revenue_threshold - revenue - 1) :
              LET raised == TierWalk(sorted, revenue + d, 1, 0, <<>>).incentiveAmount
              IN  /\ raised * c.incentive_amount.den
                       = (c.incentive_amount.num + d * sorted[j].incentive_rate) * 100
                  /\ raised * c.incentive_amount.den > c.incentive_amount.num * 100

(* C14: for two adjacent tiers of the matched rule, in ascending threshold *)
(* order, and a qualifying revenue strictly between their thresholds,      *)
(* raising the revenue by d inside the band raises incentive_amount by     *)
(* exactly d times the lower tier's rate percent, a strict increase.       *)
C14_LinearInBand ==
  \A x \in Listed : x[2].applicable_rule # <<>> => LinearInBand(x[1], x[2])

(* C14 holds of every rule in which no tier but the lowest has threshold 0 *)
C14_LinearUnlessLaterZero ==
  \A x \in Results :
    x[2].applicable_rule # <<>> =>
      LET sorted == SortTiers(x[2].applicable_rule[1].tiers)
      IN  (\A i \in 2..Len(sorted) : sorted[i].revenue_threshold # 0) =>
            LinearInBand(x[1], x[2])

\* the orderings of n tiers, as maps from new to old positions
Orderings(n) == {p \in [1..n -> 1..n] : \A i, j \in 1..n : p[i] = p[j] => i = j}

\* whether an ordering keeps tiers of equal threshold in their relative order
KeepsEqualThresholds(p, tiers) ==
  \A i, j \in DOMAIN tiers :
    i < j /\ tiers[p[i]].revenue_threshold = tiers[p[j]].revenue_threshold
      => p[i] < p[j]

\* a calculation without its rule and its display name (which follows the
\* directory, not the tiers)
Unruled(c) == [c EXCEPT !.applicable_rule = <<>>, !.user_name = <<>>]

\* the calculation of x = <<userAccounts, c>> when the matched rule holds
\* other tiers (or the same in another order)
WithTiers(x, tiers) ==
  LET made == CalculateUserIncentive(
                x[2].user_id, x[1], salesData,
                <<[x[2].applicable_rule[1] EXCEPT !.tiers = tiers]>>)
  IN  [k \in DOMAIN made |-> Unruled(made[k])]

\* current and next tier of x = <<userAccounts, c>> are the tiers the claim
\* names, the tiers beyond the next tier do not matter, and the rule keeps
\* its own tier list
SweepWithEarlyExit(x) ==
  LET c == x[2]
      rule == c.applicable_rule[1]
      tiers == rule.tiers
      revenue == RevenueOf(QualifyingIds(AccountIdsOf(x[1]), rule))
      above == {i \in DOMAIN tiers : tiers[i].revenue_threshold > revenue}
      reached == DOMAIN tiers \ above
      next == CHOOSE i \in above : \A k \in above :
                \/ tiers[i].revenue_threshold < tiers[k].revenue_threshold
                \/ tiers[i].revenue_threshold = tiers[k].revenue_threshold /\ i <= k
      current == CHOOSE i \in reached : \A k \in reached :
                   \/ tiers[k].revenue_threshold < tiers[i].revenue_threshold
                   \/ tiers[k].revenue_threshold = tiers[i].revenue_threshold /\ k <= i
      Kept(i) == i \in reached \/ (above # {} /\ i = next)
      kept == [k \in 1..Cardinality({i \in DOMAIN tiers : Kept(i)}) |->
                 tiers[CHOOSE i \in DOMAIN tiers :
                         Kept(i) /\ Cardinality({j \in 1..i : Kept(j)}) = k]]
  IN  /\ c.next_tier = IF above = {} THEN <<>> ELSE <<tiers[next]>>
      /\ c.current_tier = IF reached = {} THEN <<>> ELSE <<tiers[current]>>
      /\ WithTiers(x, kept) = <<Unruled(c)>>
      /\ rule \in Range(incentiveRules)

\* whether the orderings of the rule's tiers that Allowed holds of all give
\* the calculation of x = <<userAccounts, c>>
SameInOrderings(x, Allowed(_, _)) ==
  LET tiers == x[2].applicable_rule[1].tiers
  IN  \A p \in Orderings(Len(tiers)) :
        Allowed(p, tiers) =>
          WithTiers(x, [i \in DOMAIN tiers |-> tiers[p[i]]]) = <<Unruled(x[2])>>

AnyOrdering(p, tiers) == TRUE

(* C15 as stated: next_tier is the first tier in ascending threshold order *)
(* above the qualifying revenue, current_tier the last at or below it,     *)
(* tiers after next_tier contribute nothing, the rule's tier list keeps    *)
(* its order, and the result is the same for every ordering of the tiers.  *)
C15_SameInEveryOrder ==
  \A x \in Listed :
    x[2].applicable_rule # <<>> =>
      SweepWithEarlyExit(x) /\ SameInOrderings(x, AnyOrdering)

(* C15, amended: as above, and the result is the same for every ordering   *)
(* of the tiers that keeps tiers of equal threshold in their relative      *)
(* order (so for every ordering, when the thresholds differ pairwise).     *)
C15_SameInOrderOfEqualThresholds ==
  \A x \in Results :
    x[2].applicable_rule # <<>> =>
      SweepWithEarlyExit(x) /\ SameInOrderings(x, KeepsEqualThresholds)

\* a rule whose tiers are held in descending order, a revenue between their
\* thresholds: the lower tier is current, the upper next, the rule unchanged
C15_Witness ==
  /\ mounted
  /\ Len(incentiveCalculations) = 1
  /\ incentiveCalculations[1].applicable_rule # <<>>
  /\ incentiveCalculations[1].applicable_rule[1].tiers = <<Tier(200, 10), Tier(100, 5)>>
  /\ incentiveCalculations[1].total_revenue = 150
  /\ incentiveCalculations[1].current_tier = <<Tier(100, 5)>>
  /\ incentiveCalculations[1].next_tier = <<Tier(200, 10)>>
  /\ incentiveCalculations[1].incentive_amount = Rat(250, 100)

\* whether the progress of x = <<userAccounts, c>>, a calculation with a
\* next tier, is the claim's quotient: measured from the current tier's
\* threshold if there is a current tier, from base_revenue_threshold if not
\* (and capped at 100, line 154)
ProgressFromCurrentTier(x) ==
  LET c == x[2]
      rule == c.applicable_rule[1]
      revenue == RevenueOf(QualifyingIds(AccountIdsOf(x[1]), rule))
      nextThreshold == c.next_tier[1].revenue_threshold
      currentThreshold == IF c.current_tier # <<>>
                          THEN c.current_tier[1].revenue_threshold
                          ELSE rule.base_revenue_threshold
      quotient == Rat((revenue - currentThreshold) * 100, nextThreshold - currentThreshold)
  IN  IF c.current_tier # <<>>
      THEN RatEq(c.progress_percentage, RatMin(quotient, RatInt(100)))
      ELSE c.progress_percentage = RatMin(quotient, RatInt(100))

(* C16: when a next tier exists, progress_percentage is                    *)
(* (qualifyingRevenue - currentThreshold) / (nextThreshold -               *)
(* currentThreshold) * 100, where currentThreshold is the current tier's   *)
(* revenue_threshold whenever there is a current tier, also one of         *)
(* threshold 0, and base_revenue_threshold only when there is none.        *)
C16_ProgressFromCurrentTier ==
  \A x \in Listed :
    x[2].applicable_rule # <<>> /\ x[2].next_tier # <<>> => ProgressFromCurrentTier(x)

(* C16 holds whenever the current tier's threshold is not 0 or the base    *)
(* threshold is 0                                                          *)
C16_ProgressUnlessZeroTier ==
  \A x \in Results :
    x[2].applicable_rule # <<>> /\ x[2].next_tier # <<>> =>
      \/ /\ x[2].current_tier # <<>>
         /\ x[2].current_tier[1].revenue_threshold = 0
         /\ x[2].applicable_rule[1].base_revenue_threshold # 0
      \/ ProgressFromCurrentTier(x)

\* whether the list is rendered from the present directory and shows the
\* users among ids that are in the directory by their directory names
ShownByDirectoryName(ids) ==
  /\ mounted /\ ~dirty
  /\ \A i \in DOMAIN incentiveCalculations :
       LET c == incentiveCalculations[i]
       IN  c.user_id \in ids /\ InDirectory(c.user_id) =>
             /\ c.user_name = DirectoryName(c.user_id)
             /\ c.user_name # FallbackName(c.user_id)

\* no fetch and no directory for a role other than superadmin
NoFetchForOtherRoles ==
  currentUser.role # "superadmin" =>
    allUsers = <<>> /\ usersFetch \in {"idle", "skipped"}

(* C17 as stated, in the states after the fetch has succeeded and the list *)
(* has been rendered again: every listed user who is in the directory is   *)
(* shown with the directory name; for another role than superadmin no      *)
(* fetch is issued and the directory is empty.                             *)
C17_EveryoneByDirectoryName ==
  /\ NoFetchForOtherRoles
  /\ mounted /\ ~dirty /\ usersFetch = "loaded" => ShownByDirectoryName({U1, U2, U3})

(* C17, amended: for a superadmin, once the fetch has succeeded the list   *)
(* is eventually rendered with the loaded directory, and from then on      *)
(* every listed user other than the current user who is in the directory   *)
(* is shown with the directory name, not the fallback identifier (the      *)
(* current user is shown with currentUser.name); for any other role no     *)
(* fetch is ever issued and the directory stays empty.                     *)
C17_OthersByDirectoryName ==
  /\ []NoFetchForOtherRoles
  /\ [](usersFetch = "loaded" =>
          <>[](ShownByDirectoryName({U1, U2, U3} \ {currentUser.id})))

\* the list rendered after the fetch succeeded: the other user has the
\* directory's name, the current user their own
C17_Witness ==
  /\ mounted /\ ~dirty
  /\ usersFetch = "loaded"
  /\ currentUser.role = "superadmin"
  /\ \E i \in DOMAIN allUsers : allUsers[i].id = U2 /\ allUsers[i].name = Budi
  /\ \E i \in DOMAIN incentiveCalculations :
       /\ incentiveCalculations[i].user_id = U2
       /\ incentiveCalculations[i].user_name = Budi
  /\ \E i \in DOMAIN incentiveCalculations :
       /\ incentiveCalculations[i].user_id = U1
       /\ incentiveCalculations[i].user_name = Ann

=============================================================================
